---- MODULE Spec2Model ----
(***************************************************************************)
(* Reference wallet client: the polling feeds (transactions in Home,       *)
(* approvals in FundsPullPreApprovals, user in UserProvider), the approval *)
(* classification, the redirect decision of Home, the approve modal and    *)
(* the total balance.                                                      *)
(*                                                                         *)
(* The three feeds share no state: a behaviour of Spec follows one feed,   *)
(* chosen in Init (variable feed), through mounts, unmounts, timer ticks   *)
(* and backend completions. Every mount of the owning view creates a new   *)
(* closure (a polling chain), numbered 1, 2, ...; the chains of earlier    *)
(* mounts stay in the model because their timers and requests outlive the  *)
(* unmount.                                                                *)
(*                                                                         *)
(* SpecClassify, SpecHome, SpecApprove and SpecBalance follow one component *)
(* each: the render of the approvals page, Home under the router, the      *)
(* approve modal and the total balance.                                    *)
(***************************************************************************)
EXTENDS Integers, Sequences, FiniteSets, TLC

\* ---------------------------------------------------------------- bounds
MaxMounts == 2
MaxTimers == 3
MaxApprovals == 2
MaxExpSecs == 2
MaxClicks == 2
MaxBalances == 2

\* ---------------------------------------------------------------- values
Feeds == {"transactions", "approvals", "user"}
Instances == 1..MaxMounts

\* new Date(approval.scope.expiration_timestamp * 1000)
MsPerSec == 1000

ApprovalStatuses == {"pending", "valid", "rejected", "revoked", "expired", "unknown"}
ExpSecs == 1..MaxExpSecs
\* clock readings (ms) around every expiration instant
Instants == UNION {{s * MsPerSec - 1, s * MsPerSec, s * MsPerSec + 1} : s \in ExpSecs}

Approval(id, st, exp) ==
    [funds_pull_pre_approval_id |-> id, status |-> st, expiration_timestamp |-> exp]

\* what the backend may answer to the polls
TransactionPages == {<<>>, <<1>>}
ApprovalPages == {<<>>, <<Approval(1, "pending", 1)>>, <<Approval(1, "valid", 2)>>}
RegistrationStatuses == {"Registered", "Verified", "Approved", "Rejected"}
\* `undefined` user / paymentMethods not attached
NoUser == [registration_status |-> "undefined", is_admin |-> FALSE, paymentMethods |-> 0]
UserProfiles == {[registration_status |-> s, is_admin |-> FALSE, paymentMethods |-> 0] :
                    s \in {"Registered", "Approved"}}
PaymentMethodLists == {1}
Errors == {"unauthorized", "other"}

VARIABLES
    feed,                 \* the polling feed this behaviour follows
    mounts,               \* number of mounts of the owning view so far
    mounted,              \* is the owning view mounted (its instance is `mounts`)
    refreshTransactions,  \* Home: the flag of each mount's closure
    refreshApprovals,     \* FundsPullPreApprovals: the flag of each mount's closure
    timeoutRef,           \* UserProvider: timeoutRef.current of each mount (0: undefined)
    timers,               \* pending timers, <<instance, handle>>
    nextHandle,           \* next handle setTimeout returns
    inflight,             \* per instance: fetches issued whose callback has not run
    pc,                   \* per instance: where loadUser is suspended
    promiseAll,           \* per instance: the two calls of Promise.all and their results
    caught,               \* per instance: the error its catch block received
    logged,               \* per instance: console.error was called
    token,                \* SessionStorage holds an access token
    screen,               \* root of the navigation stack
    unmountedUpdate,      \* a state setter was called by a chain whose view is unmounted
    transactions,         \* Home state
    approvals,            \* FundsPullPreApprovals state
    newApprovals, activeApprovals, historyApprovals,  \* the buckets of the last render
    rendered,             \* the approvals view has rendered `approvals`
    previousActive,       \* the active bucket of the render before the last
    readings,             \* the `now` each iteration of the last render read
    now,                  \* wall clock, ms
    user,                 \* UserProvider state / settings.user
    activeCurrency,       \* Home state
    homeMounted,          \* Home is the page shown (redirect model)
    pageContent,          \* what Home rendered last
    modalOpen,            \* Home state: sendModalOpen, receiveModalOpen, transferModalOpen
    location,             \* router location (redirect model)
    submitStatus,         \* ApproveModal state
    errorMessage,         \* ApproveModal state
    approveOpen,          \* ApproveModal prop `open`
    clicks,               \* ApproveModal: calls of updateApproval so far
    requests,             \* ApproveModal: per call of updateApproval, where it is suspended
    accountLoaded,        \* settings.account is defined
    balances,             \* settings.account.balances
    rates,                \* exchange rate of each currency to the default fiat currency
    totalFiatBalance,     \* TotalBalance: the total of the last render
    totalShown            \* TotalBalance has rendered a total

pollVars == <<feed, mounts, mounted, refreshTransactions, refreshApprovals, timeoutRef,
              timers, nextHandle, inflight, pc, promiseAll, caught, logged, token, screen,
              unmountedUpdate, transactions>>
classifyVars == <<approvals, newApprovals, activeApprovals, historyApprovals, rendered,
                  previousActive, readings, now>>
homeVars == <<activeCurrency, homeMounted, pageContent, modalOpen, location>>
approveVars == <<submitStatus, errorMessage, approveOpen, clicks, requests>>
balanceVars == <<accountLoaded, balances, rates, totalFiatBalance, totalShown>>
componentVars == <<approveVars, balanceVars>>
vars == <<pollVars, classifyVars, homeVars, user, componentVars>>


\* ------------------------------------------------- approval classification
\* FundsPullPreApprovals.tsx:46-48: expiration_timestamp < now, both as Date (ms)
ExpiredNever(approval, reading) == FALSE
\* a faulty test with the comparison reversed
ExpiredReversed(approval, reading) == approval.expiration_timestamp * MsPerSec > reading
Expired(approval, reading) == approval.expiration_timestamp * MsPerSec < reading

Buckets(n, a, h) == [new |-> n, active |-> a, history |-> h]
EmptyBuckets == Buckets(<<>>, <<>>, <<>>)

\* a faulty loop body: an expired valid approval is pushed to no bucket
ClassifyStepDropsExpired(acc, approval, reading) ==
    IF approval.status = "pending"
    THEN [acc EXCEPT !.new = Append(@, approval)]
    ELSE IF approval.status = "valid"
         THEN IF Expired(approval, reading)
              THEN acc
              ELSE [acc EXCEPT !.active = Append(@, approval)]
         ELSE [acc EXCEPT !.history = Append(@, approval)]

\* one iteration of the for loop; `reading` is the `new Date()` of this iteration
ClassifyStep(acc, approval, reading) ==
    IF approval.status = "pending"
    THEN [acc EXCEPT !.new = Append(@, approval)]
    ELSE IF approval.status = "valid"
         THEN IF Expired(approval, reading)
              THEN [acc EXCEPT !.history = Append(@, approval)]
              ELSE [acc EXCEPT !.active = Append(@, approval)]
         ELSE [acc EXCEPT !.history = Append(@, approval)]

RECURSIVE ClassifyFrom(_, _, _, _)
ClassifyFrom(list, rs, i, acc) ==
    IF i > Len(list)
    THEN acc
    ELSE ClassifyFrom(list, rs, i + 1, ClassifyStep(acc, list[i], rs[i]))

\* the three buckets a render computes from scratch
Classify(list, rs) == ClassifyFrom(list, rs, 1, EmptyBuckets)

\* the props of FundsPullPreApprovalsList
ListProps(noApproveReject, noRevoke) ==
    [disableApproveRejectButtons |-> noApproveReject, disableRevokeButton |-> noRevoke]

\* a faulty history section that forgets disableRevokeButton
ListPropsOfWithRevocableHistory(bucket) ==
    IF bucket = "new" THEN ListProps(FALSE, TRUE) ELSE ListProps(TRUE, FALSE)
\* FundsPullPreApprovals.tsx:65-87: the props each section passes to its list
ListPropsOf(bucket) ==
    IF bucket = "new" THEN ListProps(FALSE, TRUE)
    ELSE IF bucket = "active" THEN ListProps(TRUE, FALSE)
    ELSE ListProps(TRUE, TRUE)

\* the actions a list offers on each of its approvals under its props
EnabledActions(props) ==
    (IF props.disableApproveRejectButtons THEN {} ELSE {"approve", "reject"})
        \cup (IF props.disableRevokeButton THEN {} ELSE {"revoke"})

\* ------------------------------------------------------------ polling: Init
IdleCalls == [getUser |-> "idle", getPaymentMethods |-> "idle",
              newUser |-> NoUser, newPaymentMethods |-> 0]
NoCurrency == "undefined"
\* router locations
WalletPath(c) == <<"/wallet/", c>>
VerifyPath == <<"/verify">>
HomePath == <<"/">>

ClassifyIdle ==
    /\ approvals = <<>>
    /\ newApprovals = <<>> /\ activeApprovals = <<>> /\ historyApprovals = <<>>
    /\ rendered = TRUE
    /\ previousActive = <<>>
    /\ readings = <<>>
    /\ now = MsPerSec

Modals == {"send", "receive", "transfer"}
AllClosed == [x \in Modals |-> FALSE]

HomeIdle ==
    /\ activeCurrency = NoCurrency
    /\ modalOpen = AllClosed
    /\ homeMounted = FALSE
    /\ pageContent = "none"
    /\ location = HomePath

\* ApproveModal.tsx:18-19: the state of a mounted modal; `undefined` message
NoMessage == "undefined"
\* what an awaited backend call may throw: a BackendError carrying the backend's
\* message, or any other error
BackendMessages == {"approval is not pending", "service unavailable"}
Thrown == {[backend |-> TRUE, message |-> msg] : msg \in BackendMessages}
              \cup {[backend |-> FALSE, message |-> "TypeError"]}
NoError == [backend |-> FALSE, message |-> "none"]
NoRequest == [phase |-> "none", accepted |-> FALSE, error |-> NoError]
ApproveIdle ==
    /\ submitStatus = "edit"
    /\ errorMessage = NoMessage
    /\ approveOpen = FALSE
    /\ clicks = 0
    /\ requests = [r \in 1..MaxClicks |-> NoRequest]

\* a float, as a decimal: num * 10^-exp
Float(num, exp) == [num |-> num, exp |-> exp]
Zero == Float(0, 0)
Currencies == {"XUS", "XDX"}

BalanceIdle ==
    /\ accountLoaded = FALSE
    /\ balances = <<>>
    /\ rates = [c \in Currencies |-> Float(100, 2)]
    /\ totalFiatBalance = Zero
    /\ totalShown = FALSE

ComponentsIdle == ApproveIdle /\ BalanceIdle

PollIdle ==
    /\ mounts = 0
    /\ mounted = FALSE
    /\ refreshTransactions = [m \in Instances |-> FALSE]
    /\ refreshApprovals = [m \in Instances |-> FALSE]
    /\ timeoutRef = [m \in Instances |-> 0]
    /\ timers = {}
    /\ nextHandle = 1
    /\ inflight = [m \in Instances |-> 0]
    /\ pc = [m \in Instances |-> "none"]
    /\ promiseAll = [m \in Instances |-> IdleCalls]
    /\ caught = [m \in Instances |-> "none"]
    /\ logged = [m \in Instances |-> FALSE]
    /\ unmountedUpdate = FALSE
    /\ transactions = <<>>

Init ==
    /\ feed \in Feeds
    /\ PollIdle
    /\ token \in (IF feed = "user" THEN BOOLEAN ELSE {TRUE})
    /\ screen = (IF token THEN "Home" ELSE "SignIn")
    /\ user = NoUser
    /\ ClassifyIdle
    /\ HomeIdle
    /\ ComponentsIdle

\* the view instance m is the one mounted now
Live(m) == mounted /\ mounts = m


\* setTimeout(f, interval): a timer of chain m under a fresh handle
Scheduled(ts, m) == ts \cup {<<m, nextHandle>>}
CanSchedule == nextHandle <= MaxTimers

\* ------------------------------------------------ Home: transactions feed
homeFrame == <<feed, refreshApprovals, timeoutRef, pc, promiseAll, token, screen,
               user, classifyVars, homeVars, componentVars>>

\* a faulty fetchTransactions: the next tick is scheduled before the await
fetchTransactionsEager(m, refresh, ts) ==
    /\ CanSchedule
    /\ inflight' = IF refresh THEN [inflight EXCEPT ![m] = @ + 1] ELSE inflight
    /\ timers' = IF refresh THEN Scheduled(ts, m) ELSE ts
    /\ nextHandle' = IF refresh THEN nextHandle + 1 ELSE nextHandle

\* fetchTransactions up to its await: the flag is read, then the request is issued;
\* ts are the timers left pending when it is entered
fetchTransactions(m, refresh, ts) ==
    /\ inflight' = IF refresh THEN [inflight EXCEPT ![m] = @ + 1] ELSE inflight
    /\ timers' = ts
    /\ nextHandle' = nextHandle

\* the mount effect: a new closure with refreshTransactions = true, first fetch
HomeMount ==
    /\ feed = "transactions"
    /\ ~mounted
    /\ mounts < MaxMounts
    /\ mounts' = mounts + 1
    /\ mounted' = TRUE
    /\ transactions' = <<>>
    /\ refreshTransactions' = [refreshTransactions EXCEPT ![mounts + 1] = TRUE]
    /\ fetchTransactions(mounts + 1, TRUE, timers)
    /\ UNCHANGED <<caught, logged, unmountedUpdate, homeFrame>>

\* the effect's cleanup
HomeUnmount ==
    /\ feed = "transactions"
    /\ mounted
    /\ mounted' = FALSE
    /\ refreshTransactions' = [refreshTransactions EXCEPT ![mounts] = FALSE]
    /\ UNCHANGED <<mounts, timers, nextHandle, inflight, caught, logged, unmountedUpdate,
                   transactions, homeFrame>>

\* a timer of the chain fires: fetchTransactions runs again
TransactionsTick(t) ==
    /\ feed = "transactions"
    /\ t \in timers
    /\ fetchTransactions(t[1], refreshTransactions[t[1]], timers \ {t})
    /\ UNCHANGED <<mounts, mounted, refreshTransactions, caught, logged, unmountedUpdate,
                   transactions, homeFrame>>

\* getTransactions resolves: setTransactions(page), then setTimeout
TransactionsResolved(m, page) ==
    /\ feed = "transactions"
    /\ inflight[m] > 0
    /\ CanSchedule
    /\ inflight' = [inflight EXCEPT ![m] = @ - 1]
    /\ transactions' = IF Live(m) THEN page ELSE transactions
    /\ unmountedUpdate' = (unmountedUpdate \/ ~Live(m))
    /\ timers' = Scheduled(timers, m)
    /\ nextHandle' = nextHandle + 1
    /\ UNCHANGED <<mounts, mounted, refreshTransactions, caught, logged, homeFrame>>

\* getTransactions rejects: the catch block logs, nothing is scheduled
TransactionsRejected(m, err) ==
    /\ feed = "transactions"
    /\ inflight[m] > 0
    /\ inflight' = [inflight EXCEPT ![m] = @ - 1]
    /\ caught' = [caught EXCEPT ![m] = err]
    /\ logged' = [logged EXCEPT ![m] = TRUE]
    /\ UNCHANGED <<mounts, mounted, refreshTransactions, timers, nextHandle,
                   unmountedUpdate, transactions, homeFrame>>

\* --------------------------------- FundsPullPreApprovals: approvals feed
approvalsFrame == <<feed, refreshTransactions, timeoutRef, pc, promiseAll, token, screen,
                    user, transactions, now, homeVars, componentVars>>
bucketVars == <<approvals, newApprovals, activeApprovals, historyApprovals, rendered,
                previousActive, readings>>

\* fetchApprovals up to its await, or to its end when the flag is off: with the
\* flag off no request is issued and the next tick is scheduled at once
fetchApprovals(m, refresh, ts) ==
    /\ ~refresh => CanSchedule
    /\ inflight' = IF refresh THEN [inflight EXCEPT ![m] = @ + 1] ELSE inflight
    /\ timers' = IF refresh THEN ts ELSE Scheduled(ts, m)
    /\ nextHandle' = IF refresh THEN nextHandle ELSE nextHandle + 1

\* the render of the list `page`, its iterations reading the clock as rs
render(page, rs) ==
    /\ newApprovals' = Classify(page, rs).new
    /\ activeApprovals' = Classify(page, rs).active
    /\ historyApprovals' = Classify(page, rs).history
    /\ previousActive' = activeApprovals
    /\ readings' = rs
    /\ rendered' = TRUE

\* setApprovals(page) on a mounted view, and the render it causes
setApprovals(page, rs) ==
    /\ approvals' = page
    /\ render(page, rs)

ApprovalsMount ==
    /\ feed = "approvals"
    /\ ~mounted
    /\ mounts < MaxMounts
    /\ mounts' = mounts + 1
    /\ mounted' = TRUE
    /\ setApprovals(<<>>, <<>>)
    /\ refreshApprovals' = [refreshApprovals EXCEPT ![mounts + 1] = TRUE]
    /\ fetchApprovals(mounts + 1, TRUE, timers)
    /\ UNCHANGED <<caught, logged, unmountedUpdate, approvalsFrame>>

ApprovalsUnmount ==
    /\ feed = "approvals"
    /\ mounted
    /\ mounted' = FALSE
    /\ refreshApprovals' = [refreshApprovals EXCEPT ![mounts] = FALSE]
    /\ UNCHANGED <<mounts, timers, nextHandle, inflight, caught, logged, unmountedUpdate,
                   bucketVars, approvalsFrame>>

ApprovalsTick(t) ==
    /\ feed = "approvals"
    /\ t \in timers
    /\ fetchApprovals(t[1], refreshApprovals[t[1]], timers \ {t})
    /\ UNCHANGED <<mounts, mounted, refreshApprovals, caught, logged, unmountedUpdate,
                   bucketVars, approvalsFrame>>

\* getAllFundsPullPreApprovals resolves: setApprovals(page), then setTimeout
ApprovalsResolved(m, page) ==
    /\ feed = "approvals"
    /\ inflight[m] > 0
    /\ CanSchedule
    /\ inflight' = [inflight EXCEPT ![m] = @ - 1]
    /\ IF Live(m)
       THEN setApprovals(page, [i \in 1..Len(page) |-> now])
       ELSE UNCHANGED bucketVars
    /\ unmountedUpdate' = (unmountedUpdate \/ ~Live(m))
    /\ timers' = Scheduled(timers, m)
    /\ nextHandle' = nextHandle + 1
    /\ UNCHANGED <<mounts, mounted, refreshApprovals, caught, logged, approvalsFrame>>

\* getAllFundsPullPreApprovals rejects: the catch block logs, nothing is scheduled
ApprovalsRejected(m, err) ==
    /\ feed = "approvals"
    /\ inflight[m] > 0
    /\ inflight' = [inflight EXCEPT ![m] = @ - 1]
    /\ caught' = [caught EXCEPT ![m] = err]
    /\ logged' = [logged EXCEPT ![m] = TRUE]
    /\ UNCHANGED <<mounts, mounted, refreshApprovals, timers, nextHandle, unmountedUpdate,
                   bucketVars, approvalsFrame>>


\* ------------------------------------------------ UserProvider: user feed
userFrame == <<feed, refreshTransactions, refreshApprovals, transactions, classifyVars,
               homeVars, componentVars>>
Calls == {"getUser", "getPaymentMethods"}

\* a faulty Promise.all: fulfilled as soon as getUser is
PromiseAllFulfilledByUser(p) == p.getUser = "ok"
\* Promise.all([getUser(), getPaymentMethods()]) is fulfilled when both calls are
PromiseAllFulfilled(p) == p.getUser = "ok" /\ p.getPaymentMethods = "ok"

\* newUser.paymentMethods = newPaymentMethods
Merged(p) == [p.newUser EXCEPT !.paymentMethods = p.newPaymentMethods]

\* loadUser up to its first await (SessionStorage.getAccessToken)
loadUser(m, ts) ==
    /\ pc' = [pc EXCEPT ![m] = "token"]
    /\ timers' = ts

UserMount ==
    /\ feed = "user"
    /\ ~mounted
    /\ mounts < MaxMounts
    /\ mounts' = mounts + 1
    /\ mounted' = TRUE
    /\ user' = NoUser
    /\ timeoutRef' = [timeoutRef EXCEPT ![mounts + 1] = 0]
    /\ loadUser(mounts + 1, timers)
    /\ UNCHANGED <<nextHandle, inflight, promiseAll, caught, logged, token, screen,
                   unmountedUpdate, userFrame>>

\* the effect's cleanup: clearTimeout(timeoutRef.current)
UserUnmount ==
    /\ feed = "user"
    /\ mounted
    /\ mounted' = FALSE
    /\ timers' = timers \ {<<mounts, timeoutRef[mounts]>>}
    /\ UNCHANGED <<mounts, timeoutRef, nextHandle, inflight, pc, promiseAll, caught, logged,
                   token, screen, unmountedUpdate, user, userFrame>>

UserTick(t) ==
    /\ feed = "user"
    /\ t \in timers
    /\ loadUser(t[1], timers \ {t})
    /\ UNCHANGED <<mounts, mounted, timeoutRef, nextHandle, inflight, promiseAll, caught,
                   logged, token, screen, unmountedUpdate, user, userFrame>>

\* a faulty loadUser that retries later when no token is stored
TokenReadRetrying(m) ==
    /\ feed = "user"
    /\ pc[m] = "token"
    /\ IF token
       THEN /\ pc' = [pc EXCEPT ![m] = "all"]
            /\ promiseAll' = [promiseAll EXCEPT ![m] =
                                [IdleCalls EXCEPT !.getUser = "pending",
                                                  !.getPaymentMethods = "pending"]]
            /\ inflight' = [inflight EXCEPT ![m] = @ + 1]
            /\ UNCHANGED <<timeoutRef, timers, nextHandle>>
       ELSE /\ CanSchedule
            /\ pc' = [pc EXCEPT ![m] = "idle"]
            /\ timeoutRef' = [timeoutRef EXCEPT ![m] = nextHandle]
            /\ timers' = Scheduled(timers, m)
            /\ nextHandle' = nextHandle + 1
            /\ UNCHANGED <<promiseAll, inflight>>
    /\ UNCHANGED <<mounts, mounted, caught, logged, token, screen, unmountedUpdate, user,
                   userFrame>>

\* getAccessToken resolves: return without a token, else issue both calls
TokenRead(m) ==
    /\ feed = "user"
    /\ pc[m] = "token"
    /\ IF token
       THEN /\ pc' = [pc EXCEPT ![m] = "all"]
            /\ promiseAll' = [promiseAll EXCEPT ![m] =
                                [IdleCalls EXCEPT !.getUser = "pending",
                                                  !.getPaymentMethods = "pending"]]
            /\ inflight' = [inflight EXCEPT ![m] = @ + 1]
       ELSE /\ pc' = [pc EXCEPT ![m] = "idle"]
            /\ UNCHANGED <<promiseAll, inflight>>
    /\ UNCHANGED <<mounts, mounted, timeoutRef, timers, nextHandle, caught, logged, token,
                   screen, unmountedUpdate, user, userFrame>>

\* Promise.all fulfilled: merge, setUser, timeoutRef.current = setTimeout(loadUser)
loadUserFulfilled(m, p) ==
    /\ CanSchedule
    /\ user' = IF Live(m) THEN Merged(p) ELSE user
    /\ unmountedUpdate' = (unmountedUpdate \/ ~Live(m))
    /\ timeoutRef' = [timeoutRef EXCEPT ![m] = nextHandle]
    /\ timers' = Scheduled(timers, m)
    /\ nextHandle' = nextHandle + 1
    /\ pc' = [pc EXCEPT ![m] = "idle"]
    /\ inflight' = [inflight EXCEPT ![m] = @ - 1]
    /\ promiseAll' = [promiseAll EXCEPT ![m] = IdleCalls]

\* one of the two calls resolves
CallResolved(m, p) ==
    /\ feed = "user"
    /\ pc[m] = "all"
    /\ IF PromiseAllFulfilled(p)
       THEN loadUserFulfilled(m, p)
       ELSE /\ promiseAll' = [promiseAll EXCEPT ![m] = p]
            /\ UNCHANGED <<timeoutRef, timers, nextHandle, inflight, pc, unmountedUpdate,
                           user>>
    /\ UNCHANGED <<mounts, mounted, caught, logged, token, screen, userFrame>>

GetUserResolved(m, u) ==
    /\ promiseAll[m].getUser = "pending"
    /\ CallResolved(m, [promiseAll[m] EXCEPT !.getUser = "ok", !.newUser = u])

GetPaymentMethodsResolved(m, pm) ==
    /\ promiseAll[m].getPaymentMethods = "pending"
    /\ CallResolved(m, [promiseAll[m] EXCEPT !.getPaymentMethods = "ok",
                                             !.newPaymentMethods = pm])

\* a faulty catch block that takes every error for an authorization failure
CallRejectedAsUnauthorized(m, call, err) ==
    /\ feed = "user"
    /\ pc[m] = "all"
    /\ promiseAll[m][call] = "pending"
    /\ promiseAll' = [promiseAll EXCEPT ![m] = IdleCalls]
    /\ inflight' = [inflight EXCEPT ![m] = @ - 1]
    /\ caught' = [caught EXCEPT ![m] = err]
    /\ pc' = [pc EXCEPT ![m] = "rmtoken"]
    /\ UNCHANGED <<mounts, mounted, timeoutRef, timers, nextHandle, token, screen, logged,
                   unmountedUpdate, user, userFrame>>

\* one of the two calls rejects while Promise.all is pending: the catch block runs;
\* the results are dropped and the outcome of the other call is never observed
CallRejected(m, call, err) ==
    /\ feed = "user"
    /\ pc[m] = "all"
    /\ promiseAll[m][call] = "pending"
    /\ promiseAll' = [promiseAll EXCEPT ![m] = IdleCalls]
    /\ inflight' = [inflight EXCEPT ![m] = @ - 1]
    /\ caught' = [caught EXCEPT ![m] = err]
    /\ IF err = "unauthorized"
       THEN pc' = [pc EXCEPT ![m] = "rmtoken"] /\ UNCHANGED logged
       ELSE pc' = [pc EXCEPT ![m] = "idle"] /\ logged' = [logged EXCEPT ![m] = TRUE]
    /\ UNCHANGED <<mounts, mounted, timeoutRef, timers, nextHandle, token, screen,
                   unmountedUpdate, user, userFrame>>

\* catch, 401: await SessionStorage.removeAccessToken()
removeAccessToken(m) ==
    /\ feed = "user"
    /\ pc[m] = "rmtoken"
    /\ token' = FALSE
    /\ pc' = [pc EXCEPT ![m] = "nav"]
    /\ UNCHANGED <<mounts, mounted, timeoutRef, timers, nextHandle, inflight, promiseAll,
                   caught, logged, screen, unmountedUpdate, user, userFrame>>

\* catch, 401: await Navigation.setStackRoot(componentId, SignIn)
setStackRoot(m) ==
    /\ feed = "user"
    /\ pc[m] = "nav"
    /\ screen' = "SignIn"
    /\ pc' = [pc EXCEPT ![m] = "idle"]
    /\ UNCHANGED <<mounts, mounted, timeoutRef, timers, nextHandle, inflight, promiseAll,
                   caught, logged, token, unmountedUpdate, user, userFrame>>

\* the user signs in on the sign-in screen: a token is stored
SignIn ==
    /\ feed = "user"
    /\ ~token
    /\ screen = "SignIn"
    /\ token' = TRUE
    /\ screen' = "Home"
    /\ UNCHANGED <<mounts, mounted, timeoutRef, timers, nextHandle, inflight, pc, promiseAll,
                   caught, logged, unmountedUpdate, user, userFrame>>

\* ------------------------------------------------------------------- Spec
Next ==
    \/ HomeMount
    \/ HomeUnmount
    \/ \E t \in timers : TransactionsTick(t)
    \/ \E m \in Instances, page \in TransactionPages : TransactionsResolved(m, page)
    \/ \E m \in Instances, err \in Errors : TransactionsRejected(m, err)
    \/ ApprovalsMount
    \/ ApprovalsUnmount
    \/ \E t \in timers : ApprovalsTick(t)
    \/ \E m \in Instances, page \in ApprovalPages : ApprovalsResolved(m, page)
    \/ \E m \in Instances, err \in Errors : ApprovalsRejected(m, err)
    \/ UserMount
    \/ UserUnmount
    \/ \E t \in timers : UserTick(t)
    \/ \E m \in Instances : TokenRead(m)
    \/ \E m \in Instances, u \in UserProfiles : GetUserResolved(m, u)
    \/ \E m \in Instances, pm \in PaymentMethodLists : GetPaymentMethodsResolved(m, pm)
    \/ \E m \in Instances, call \in Calls, err \in Errors : CallRejected(m, call, err)
    \/ \E m \in Instances : removeAccessToken(m)
    \/ \E m \in Instances : setStackRoot(m)
    \/ SignIn

Spec == Init /\ [][Next]_vars


\* ----------------------------------------------------------------- claims

\* C1: a fetch that resolves after its view unmounted is discarded: no state
\* setter (setTransactions, setApprovals, setUser) is ever called by a chain
\* whose view is unmounted.
C1_NoUpdateAfterUnmount == ~unmountedUpdate

\* C2: once its view has unmounted, a chain never schedules a new timer, neither
\* when its in-flight fetch resolves nor when its pending tick fires.
C2_NoTimerAfterUnmount ==
    [][\A t \in timers' \ timers : Live(t[1])]_vars

\* C3: a fetch failing with an error other than an authorization failure is
\* logged and, on a mounted view, leaves a next tick scheduled.
C3_FailureKeepsPolling ==
    [][\A m \in Instances :
          (caught[m] = "none" /\ caught'[m] = "other" /\ Live(m))
              => (logged'[m] /\ \E t \in timers' : t[1] = m)]_vars

\* C4: a 401 answer to any poll takes the sign-out path (the token removal and the
\* redirect to sign-in follow) and publishes no user, transactions or approvals.
C4_UnauthorizedSignsOut ==
    [][\A m \in Instances :
          (caught[m] = "none" /\ caught'[m] = "unauthorized")
              => (pc'[m] = "rmtoken" /\ UNCHANGED <<user, transactions, approvals>>)]_vars

\* C5: loadUser is all-or-nothing: a user is published only by the step that
\* fulfils both getUser and getPaymentMethods of one refresh, and it is the merge
\* of that refresh's two results; a step in which a call fails publishes nothing.
C5_AllOrNothing ==
    [][/\ (user' # user /\ user' # NoUser) =>
            \E m \in Instances :
                /\ Live(m)
                /\ pc[m] = "all" /\ pc'[m] = "idle" /\ caught'[m] = "none"
                /\ \/ /\ promiseAll[m].getUser = "ok"
                      /\ promiseAll[m].getPaymentMethods = "pending"
                      /\ \E pm \in PaymentMethodLists :
                            user' = [promiseAll[m].newUser EXCEPT !.paymentMethods = pm]
                   \/ /\ promiseAll[m].getUser = "pending"
                      /\ promiseAll[m].getPaymentMethods = "ok"
                      /\ \E u \in UserProfiles :
                            user' = [u EXCEPT !.paymentMethods =
                                                  promiseAll[m].newPaymentMethods]
       /\ (caught' # caught) => (user' = user)]_vars

\* C5 witness: a refresh of the mounted view failed after an earlier refresh of
\* that mount had published a user, and the published user stands.
C5_Witness ==
    \E m \in Instances :
        /\ Live(m)
        /\ caught[m] = "other"
        /\ timeoutRef[m] # 0
        /\ user # NoUser

\* C6 as stated: at most one in-flight fetch per feed, whatever the mounts.
C6_SingleInFlightPerFeed ==
    /\ Cardinality({m \in Instances : inflight[m] > 0}) <= 1
    /\ \A m \in Instances : inflight[m] <= 1

\* C6 amended: the chain of one mount never has two fetches in flight.
C6_SingleInFlightPerMount == \A m \in Instances : inflight[m] <= 1

\* C6 witness: a chain's next fetch is in flight after its previous fetch's
\* callback ran (it had scheduled the tick).
C6_Witness == \E m \in Instances : timeoutRef[m] # 0 /\ inflight[m] = 1

\* C7: at most one pending timer per feed, also across unmount and remount.
C7_SingleTimer == Cardinality(timers) <= 1


\* ------------------------------------------- SpecClassify: the render alone
\* The classification as a function of its inputs: Init draws the list the view
\* holds and the clock; the view renders it, again and again, while the clock runs.

\* the loop reads expiration_timestamp of valid approvals only: the others carry 1
ApprovalKinds ==
    {<<st, 1>> : st \in ApprovalStatuses \ {"valid"}} \cup {<<"valid", e>> : e \in ExpSecs}

ApprovalListOf(kinds) == [i \in 1..Len(kinds) |-> Approval(i, kinds[i][1], kinds[i][2])]

ApprovalLists ==
    {ApprovalListOf(k) : k \in UNION {[1..n -> ApprovalKinds] : n \in 0..MaxApprovals}}

\* the first instant after t (t itself at the end of the clock's range)
NextInstant(t) ==
    IF \E x \in Instants : x > t
    THEN CHOOSE x \in Instants : x > t /\ \A y \in Instants : y > t => x <= y
    ELSE t

\* the clock readings of n iterations entered at t: between two readings the clock
\* stays or reaches the next instant
RECURSIVE Readings(_, _)
Readings(t, n) ==
    IF n = 0
    THEN {<<>>}
    ELSE UNION {{<<r>> \o rest : rest \in Readings(r, n - 1)} : r \in {t, NextInstant(t)}}

LastReading(rs, t) == IF rs = <<>> THEN t ELSE rs[Len(rs)]

InitClassify ==
    /\ feed = "approvals"
    /\ PollIdle
    /\ token = TRUE
    /\ screen = "Home"
    /\ user = NoUser
    /\ HomeIdle
    /\ ComponentsIdle
    /\ approvals \in ApprovalLists
    /\ newApprovals = <<>> /\ activeApprovals = <<>> /\ historyApprovals = <<>>
    /\ rendered = FALSE
    /\ previousActive = <<>>
    /\ readings = <<>>
    /\ now \in Instants

\* the component function runs: lines 39-57
RenderApprovals ==
    /\ \E rs \in Readings(now, Len(approvals)) :
          /\ render(approvals, rs)
          /\ now' = LastReading(rs, now)
    /\ UNCHANGED <<approvals, pollVars, homeVars, user, componentVars>>

ClockTick ==
    /\ NextInstant(now) # now
    /\ now' = NextInstant(now)
    /\ UNCHANGED <<bucketVars, pollVars, homeVars, user, componentVars>>

NextClassify == RenderApprovals \/ ClockTick

SpecClassify == InitClassify /\ [][NextClassify]_vars

\* --------------------------------------- SpecHome: the redirects of Home
\* Home under the router: it is shown at "/", renders on every change of
\* settings.user and of activeCurrency, and is unmounted when one of its
\* Redirect elements changes the location.
SettingsUsers ==
    [registration_status : RegistrationStatuses, is_admin : BOOLEAN, paymentMethods : {1}]

\* a faulty test that forgets the Verified status
userVerificationRequiredRegisteredOnly(u) ==
    u # NoUser /\ u.registration_status \in {"Registered"}
\* Home.tsx:34-38
userVerificationRequired(u) ==
    u # NoUser /\ u.registration_status \in {"Registered", "Verified"}

\* a faulty pageContent that checks only that a user is loaded
PageContentOfAnyUser(u) ==
    IF u = NoUser THEN "WalletLoader"
    ELSE IF u.is_admin THEN "AdminHome"
    ELSE "Wallet"
\* Home.tsx:60-124
PageContent(u) ==
    IF u = NoUser THEN "WalletLoader"
    ELSE IF u.registration_status # "Approved" THEN "VerifyingMessage"
    ELSE IF u.is_admin THEN "AdminHome"
    ELSE "Wallet"

\* the Redirect elements of the returned tree, in order: Home.tsx:152-153
Redirects(u, c) ==
    (IF userVerificationRequired(u) THEN <<VerifyPath>> ELSE <<>>)
        \o (IF c # NoCurrency THEN <<WalletPath(c)>> ELSE <<>>)

\* a commit of Home with user u and activeCurrency c: every Redirect mounted
\* replaces the location, in order, and a changed location unmounts Home
HomeCommit(u, c) ==
    /\ pageContent' = PageContent(u)
    /\ location' = IF Redirects(u, c) = <<>>
                   THEN HomePath
                   ELSE Redirects(u, c)[Len(Redirects(u, c))]
    /\ homeMounted' = (Redirects(u, c) = <<>>)

InitHome ==
    /\ feed = "transactions"
    /\ PollIdle
    /\ token = TRUE
    /\ screen = "Home"
    /\ ClassifyIdle
    /\ user = NoUser
    /\ HomeIdle
    /\ ComponentsIdle

\* the router shows Home: fresh state (activeCurrency undefined), first render
HomeShown ==
    /\ ~homeMounted
    /\ activeCurrency' = NoCurrency
    /\ modalOpen' = AllClosed
    /\ HomeCommit(user, NoCurrency)
    /\ UNCHANGED <<pollVars, classifyVars, user, componentVars>>

\* settings.user changes (a refresh of the settings context); Home renders if shown
SettingsUserChanged(u) ==
    /\ u # user
    /\ user' = u
    /\ IF homeMounted
       THEN HomeCommit(u, activeCurrency)
       ELSE UNCHANGED <<homeMounted, pageContent, location>>
    /\ UNCHANGED <<activeCurrency, modalOpen, pollVars, classifyVars, componentVars>>

\* BalancesList onSelect = setActiveCurrency: the list is part of the wallet view
setActiveCurrency(c) ==
    /\ homeMounted
    /\ pageContent = "Wallet"
    /\ activeCurrency' = c
    /\ HomeCommit(user, c)
    /\ UNCHANGED <<modalOpen, pollVars, classifyVars, user, componentVars>>

\* Actions onSendClick / onRequestClick / onTransferClick and the modals' onClose:
\* setSendModalOpen, setReceiveModalOpen, setTransferModalOpen; all are part of
\* the wallet view
setModalOpen(x, open) ==
    /\ homeMounted
    /\ pageContent = "Wallet"
    /\ modalOpen[x] # open
    /\ modalOpen' = [modalOpen EXCEPT ![x] = open]
    /\ HomeCommit(user, activeCurrency)
    /\ UNCHANGED <<activeCurrency, pollVars, classifyVars, user, componentVars>>

NextHome ==
    \/ HomeShown
    \/ \E u \in SettingsUsers \cup {NoUser} : SettingsUserChanged(u)
    \/ \E c \in Currencies : setActiveCurrency(c)
    \/ \E x \in Modals, open \in BOOLEAN : setModalOpen(x, open)

SpecHome == InitHome /\ [][NextHome]_vars

\* ------------------------------- SpecApprove: the approve modal's submit
\* ApproveModal while it is mounted: the parent opens it, the user clicks Approve
\* (also again while an earlier call is awaiting the backend), closes it, and the
\* backend answers. Every click is a call of updateApproval, numbered 1, 2, ...

\* t("modals.internal_error")
InternalError == "modals.internal_error"

\* a faulty catch block that shows the message of whatever was thrown
ErrorTextOfAny(e) == e.message
\* ApproveModal.tsx:46-51: the message the catch block sets
ErrorText(e) == IF e.backend THEN e.message ELSE InternalError

\* ApproveModal.tsx:44-52: the catch block of call r
catchUpdateApproval(r, e) ==
    /\ submitStatus' = "fail"
    /\ errorMessage' = ErrorText(e)
    /\ requests' = [requests EXCEPT ![r].phase = "done", ![r].error = e]

InitApprove ==
    /\ feed = "approvals"
    /\ PollIdle
    /\ token = TRUE
    /\ screen = "Home"
    /\ user = NoUser
    /\ ClassifyIdle
    /\ HomeIdle
    /\ ComponentsIdle

approveFrame == <<pollVars, classifyVars, homeVars, user, balanceVars>>

\* the parent passes open = true
ApproveModalOpened ==
    /\ ~approveOpen
    /\ approveOpen' = TRUE
    /\ UNCHANGED <<submitStatus, errorMessage, clicks, requests, approveFrame>>

\* the Approve button (rendered unless submitStatus is "success"): updateApproval
\* up to its first await
updateApproval ==
    /\ approveOpen
    /\ submitStatus # "success"
    /\ clicks < MaxClicks
    /\ clicks' = clicks + 1
    /\ errorMessage' = NoMessage
    /\ submitStatus' = "edit"
    /\ requests' = [requests EXCEPT ![clicks + 1].phase = "update"]
    /\ UNCHANGED <<approveOpen, approveFrame>>

\* updateApprovalStatus(id, "valid") resolves: success, then refreshUser is awaited
UpdateApprovalStatusResolved(r) ==
    /\ requests[r].phase = "update"
    /\ submitStatus' = "success"
    /\ requests' = [requests EXCEPT ![r].phase = "refresh", ![r].accepted = TRUE]
    /\ UNCHANGED <<errorMessage, approveOpen, clicks, approveFrame>>

UpdateApprovalStatusRejected(r, e) ==
    /\ requests[r].phase = "update"
    /\ catchUpdateApproval(r, e)
    /\ UNCHANGED <<approveOpen, clicks, approveFrame>>

\* refreshUser resolves: updateApproval returns
RefreshUserResolved(r) ==
    /\ requests[r].phase = "refresh"
    /\ requests' = [requests EXCEPT ![r].phase = "done"]
    /\ UNCHANGED <<submitStatus, errorMessage, approveOpen, clicks, approveFrame>>

RefreshUserRejected(r, e) ==
    /\ requests[r].phase = "refresh"
    /\ catchUpdateApproval(r, e)
    /\ UNCHANGED <<approveOpen, clicks, approveFrame>>

\* the close, Cancel and Done buttons
onModalClose ==
    /\ approveOpen
    /\ submitStatus' = "edit"
    /\ errorMessage' = NoMessage
    /\ approveOpen' = FALSE
    /\ UNCHANGED <<clicks, requests, approveFrame>>

NextApprove ==
    \/ ApproveModalOpened
    \/ updateApproval
    \/ \E r \in 1..MaxClicks : UpdateApprovalStatusResolved(r)
    \/ \E r \in 1..MaxClicks, e \in Thrown : UpdateApprovalStatusRejected(r, e)
    \/ \E r \in 1..MaxClicks : RefreshUserResolved(r)
    \/ \E r \in 1..MaxClicks, e \in Thrown : RefreshUserRejected(r, e)
    \/ onModalClose

SpecApprove == InitApprove /\ [][NextApprove]_vars

\* --------------------------------------- SpecBalance: the total balance
\* TotalBalance as a function of the balances and rates it reads: Init draws them,
\* the settings context replaces the balances, the component renders.

\* the decimal precision of the ledger currencies (minor units per major unit: 10^6)
LibraPrecision == 6
\* totals are compared in units of 10^-FloatDigits
FloatDigits == 8
Units(f) == f.num * 10^(FloatDigits - f.exp)

\* integer minor units to major units
libraToFloat(amount) == Float(amount, LibraPrecision)
Times(f, g) == Float(f.num * g.num, f.exp + g.exp)
Plus(f, g) == Float(Units(f) + Units(g), FloatDigits)

\* minor-unit amounts
Amounts == {0, 1, 500000}
Balance(c, amount) == [currency |-> c, balance |-> amount]
CurrencyBalances == {Balance(c, amount) : c \in Currencies, amount \in Amounts}
BalanceLists == UNION {[1..n -> CurrencyBalances] : n \in 0..MaxBalances}
\* rates 1.00 and 0.50
RateTables == [Currencies -> {Float(100, 2), Float(50, 2)}]

\* a faulty reducer that assigns instead of accumulating
reducerOverwriting(totalBalance, currencyBalance, rs) ==
    Times(libraToFloat(currencyBalance.balance), rs[currencyBalance.currency])
\* TotalBalance.tsx:19-23: totalBalance += libraToFloat(balance) * exchangeRate
reducer(totalBalance, currencyBalance, rs) ==
    Plus(totalBalance,
         Times(libraToFloat(currencyBalance.balance), rs[currencyBalance.currency]))

\* balances.reduce(reducer, 0)
RECURSIVE reduce(_, _, _, _)
reduce(list, rs, i, acc) ==
    IF i > Len(list) THEN acc ELSE reduce(list, rs, i + 1, reducer(acc, list[i], rs))

InitBalance ==
    /\ feed = "transactions"
    /\ PollIdle
    /\ token = TRUE
    /\ screen = "Home"
    /\ user = NoUser
    /\ ClassifyIdle
    /\ HomeIdle
    /\ ApproveIdle
    /\ accountLoaded \in BOOLEAN
    /\ balances \in (IF accountLoaded THEN BalanceLists ELSE {<<>>})
    /\ rates \in RateTables
    /\ totalFiatBalance = Zero
    /\ totalShown = FALSE

balanceFrame == <<pollVars, classifyVars, homeVars, user, approveVars>>

\* the component function: nothing without an account, else the total
TotalBalance ==
    /\ IF accountLoaded
       THEN /\ totalFiatBalance' = reduce(balances, rates, 1, Zero)
            /\ totalShown' = TRUE
       ELSE /\ totalFiatBalance' = Zero
            /\ totalShown' = FALSE
    /\ UNCHANGED <<accountLoaded, balances, rates, balanceFrame>>

\* the settings context publishes the account's balances
setAccountBalances(list) ==
    /\ list # balances \/ ~accountLoaded
    /\ accountLoaded' = TRUE
    /\ balances' = list
    /\ totalShown' = FALSE
    /\ UNCHANGED <<rates, totalFiatBalance, balanceFrame>>

NextBalance ==
    \/ TotalBalance
    \/ \E list \in BalanceLists : setAccountBalances(list)

SpecBalance == InitBalance /\ [][NextBalance]_vars

\* position of approval a in list
Pos(list, a) == CHOOSE k \in 1..Len(list) : list[k] = a
Elems(list) == {list[k] : k \in 1..Len(list)}
InOrderOf(bucket, list) ==
    \A i, j \in 1..Len(bucket) : i < j => Pos(list, bucket[i]) < Pos(list, bucket[j])

\* C8: the three buckets of a render partition the list and keep its order: every
\* approval is in exactly one bucket, once; the buckets hold nothing else; each
\* bucket lists its approvals in input order.
C8_Partition ==
    rendered =>
        /\ \A k \in 1..Len(approvals) :
              Cardinality({b \in {"new", "active", "history"} :
                  approvals[k] \in Elems(Buckets(newApprovals, activeApprovals,
                                                 historyApprovals)[b])}) = 1
        /\ Elems(newApprovals) \cup Elems(activeApprovals) \cup Elems(historyApprovals)
              = Elems(approvals)
        /\ Len(newApprovals) + Len(activeApprovals) + Len(historyApprovals)
              = Len(approvals)
        /\ InOrderOf(newApprovals, approvals)
        /\ InOrderOf(activeApprovals, approvals)
        /\ InOrderOf(historyApprovals, approvals)

\* C8 witness: a rendered list of two approvals, an expired valid one and then a
\* rejected one, both in the history bucket in that order.
C8_Witness ==
    /\ rendered
    /\ Len(approvals) = 2
    /\ Len(historyApprovals) = 2
    /\ historyApprovals[1].status = "valid"
    /\ historyApprovals[2].status = "rejected"

\* C9: a valid approval whose expiration lies in the past when its iteration reads
\* the clock is put in history and not in active.
C9_ExpiredValidIsHistory ==
    rendered =>
        \A k \in 1..Len(approvals) :
            (/\ approvals[k].status = "valid"
             /\ approvals[k].expiration_timestamp * MsPerSec < readings[k])
                => (/\ approvals[k] \in Elems(historyApprovals)
                    /\ approvals[k] \notin Elems(activeApprovals))

\* C9 witness: a render classified a valid approval one millisecond past its
\* expiration as history, next to a valid approval still active.
C9_Witness ==
    /\ rendered
    /\ \E k \in 1..Len(approvals) :
          /\ approvals[k].status = "valid"
          /\ readings[k] = approvals[k].expiration_timestamp * MsPerSec + 1
          /\ approvals[k] \in Elems(historyApprovals)
    /\ activeApprovals # <<>>


\* the redirect the rule order prescribes, first match winning
RuleOrder(u, c) ==
    IF u # NoUser /\ u.registration_status \in {"Registered", "Verified"}
    THEN VerifyPath
    ELSE IF c # NoCurrency THEN WalletPath(c) ELSE HomePath

\* C10: whenever Home renders (on mount and on every change of settings.user or
\* activeCurrency), the location it leaves is the one the rule order prescribes:
\* the verification flow for a Registered or Verified user, else the selected
\* currency's detail view, else no redirect; and a Home that stays shown has
\* nothing to redirect to.
C10_RedirectRuleOrder ==
    [][(homeMounted \/ homeMounted') =>
          /\ location' = RuleOrder(user', activeCurrency')
          /\ homeMounted' = (RuleOrder(user', activeCurrency') = HomePath)]_vars

\* C10 witness: Home redirected a Verified user to the verification flow.
C10_Witness ==
    /\ ~homeMounted
    /\ location = VerifyPath
    /\ pageContent = "VerifyingMessage"
    /\ user # NoUser
    /\ user.registration_status = "Verified"

\* call r of updateApproval finishes in this step
Finishes(r) == requests[r].phase # "done" /\ requests'[r].phase = "done"

\* C11: when a call of updateApproval fails (the status update or the refresh
\* that follows it throws), the failure ends in the modal's state: submitStatus
\* becomes "fail" and errorMessage the backend's message for a BackendError, the
\* generic internal-error message for anything else.
C11_FailureShown ==
    [][\A r \in 1..MaxClicks :
          (Finishes(r) /\ requests'[r].error # NoError) =>
              /\ submitStatus' = "fail"
              /\ requests'[r].error.backend =>
                     errorMessage' = requests'[r].error.message
              /\ ~requests'[r].error.backend =>
                     errorMessage' = InternalError]_vars

\* C11 witness: the modal shows the generic message after a call failed with an
\* error that is not a BackendError.
C11_Witness ==
    /\ approveOpen
    /\ submitStatus = "fail"
    /\ errorMessage = InternalError
    /\ \E r \in 1..MaxClicks :
          requests[r].phase = "done" /\ requests[r].error = [backend |-> FALSE,
                                                            message |-> "TypeError"]

\* C19: when a call of updateApproval finishes, the modal does not report "fail"
\* if the backend accepted the status update, and reports "fail" if it did not.
C19_SuccessIffAccepted ==
    [][\A r \in 1..MaxClicks :
          Finishes(r) =>
              /\ requests'[r].accepted => submitStatus' # "fail"
              /\ ~requests'[r].accepted => submitStatus' = "fail"]_vars

\* C20: errorMessage is set only while submitStatus is "fail", so the success
\* message and an error message are never displayed together.
C20_ErrorOnlyWhenFail == errorMessage # NoMessage => submitStatus = "fail"

\* C12: whenever Home renders, what it shows follows the user it read: the loader
\* with no user loaded, the verifying message for a loaded user whose
\* registration_status is not "Approved", and the wallet view (balances, actions,
\* transactions) only for a loaded user whose status is "Approved".
C12_WalletOnlyWhenApproved ==
    [][(homeMounted \/ homeMounted') =>
          /\ user' = NoUser => pageContent' = "WalletLoader"
          /\ (user' # NoUser /\ user'.registration_status # "Approved")
                => pageContent' = "VerifyingMessage"
          /\ pageContent' = "Wallet"
                => (user' # NoUser /\ user'.registration_status = "Approved")]_vars

\* C12 witness: Home stays shown with the verifying message for a loaded user
\* whose status is Rejected.
C12_Witness ==
    /\ homeMounted
    /\ user # NoUser
    /\ user.registration_status = "Rejected"
    /\ pageContent = "VerifyingMessage"

\* the actions the rendered view offers on approval a
Offered(a) ==
    UNION {EnabledActions(ListPropsOf(b)) :
              b \in {c \in {"new", "active", "history"} :
                        a \in Elems(Buckets(newApprovals, activeApprovals,
                                            historyApprovals)[c])}}

\* C13 as stated: in every state the rendered view offers approve and reject only
\* on pending approvals, revoke only on valid approvals that are not expired, and
\* nothing on a terminal approval (rejected, revoked, expired, or valid and past
\* its expiration by the wall clock).
C13_OnlyMachineTransitions ==
    rendered =>
        \A k \in 1..Len(approvals) :
            /\ ({"approve", "reject"} \cap Offered(approvals[k]) # {})
                  => approvals[k].status = "pending"
            /\ "revoke" \in Offered(approvals[k])
                  => (approvals[k].status = "valid" /\ ~Expired(approvals[k], now))
            /\ (\/ approvals[k].status \in {"rejected", "revoked", "expired"}
                \/ (approvals[k].status = "valid" /\ Expired(approvals[k], now)))
                  => Offered(approvals[k]) = {}

\* C13 amended: the same, with expiry judged by the clock reading of the render
\* that drew the approval.
C13_OnlyMachineTransitionsAtRender ==
    rendered =>
        \A k \in 1..Len(approvals) :
            /\ ({"approve", "reject"} \cap Offered(approvals[k]) # {})
                  => approvals[k].status = "pending"
            /\ "revoke" \in Offered(approvals[k])
                  => (approvals[k].status = "valid"
                         /\ ~(approvals[k].expiration_timestamp * MsPerSec < readings[k]))
            /\ (\/ approvals[k].status \in {"rejected", "revoked", "expired"}
                \/ (approvals[k].status = "valid"
                         /\ approvals[k].expiration_timestamp * MsPerSec < readings[k]))
                  => Offered(approvals[k]) = {}

\* C13 witness: a render that offers revoke on a valid approval read exactly at
\* its expiration instant and nothing on a revoked one.
C13_Witness ==
    /\ rendered
    /\ \E k \in 1..Len(approvals) :
          /\ approvals[k].status = "valid"
          /\ readings[k] = approvals[k].expiration_timestamp * MsPerSec
          /\ Offered(approvals[k]) = {"revoke"}
    /\ \E k \in 1..Len(approvals) :
          approvals[k].status = "revoked" /\ Offered(approvals[k]) = {}

\* the sum of the converted balances, last term first
RECURSIVE SumOfBalances(_, _)
SumOfBalances(list, rs) ==
    IF list = <<>>
    THEN 0
    ELSE SumOfBalances(SubSeq(list, 1, Len(list) - 1), rs)
            + (list[Len(list)].balance * 10^(FloatDigits - LibraPrecision - 2))
                  * rs[list[Len(list)].currency].num

\* balances [(XUS, 500000)] at rate XUS to fiat = 1.00
IsExample ==
    /\ balances = <<Balance("XUS", 500000)>>
    /\ rates["XUS"] = Float(100, 2)

\* C14 as stated: the total is the sum over the balances of major-unit amount
\* times rate, 0 for no balances, and for [(XUS, 500000)] at rate 1.00 it is 5.00.
C14_TotalFiatBalance ==
    totalShown =>
        /\ Units(totalFiatBalance) = SumOfBalances(balances, rates)
        /\ balances = <<>> => Units(totalFiatBalance) = 0
        /\ IsExample => Units(totalFiatBalance) = Units(Float(500, 2))

\* C14 amended: the same, the example's total being 0.50.
C14_TotalFiatBalanceHalf ==
    totalShown =>
        /\ Units(totalFiatBalance) = SumOfBalances(balances, rates)
        /\ balances = <<>> => Units(totalFiatBalance) = 0
        /\ IsExample => Units(totalFiatBalance) = Units(Float(50, 2))

\* C14 witness: the total of the example's balances has been rendered.
C14_Witness == totalShown /\ IsExample /\ totalFiatBalance # Zero

\* C15: a feed stops on unmount: a chain whose view is unmounted issues no new
\* backend request, and when a pending timer of such a chain fires the chain is
\* left with no pending timer, so that once its in-flight request has completed
\* the feed has no request in flight and no timer pending, and stays so.
C15_StopsOnUnmount ==
    [][\A m \in Instances :
          /\ inflight'[m] > inflight[m] => (mounted' /\ mounts' = m)
          /\ (~Live(m) /\ \E t \in timers \ timers' : t[1] = m)
                => ~\E t \in timers' : t[1] = m]_vars

\* C16: the bucket of an approval is new iff its status is pending, active iff its
\* status is valid and its expiration is strictly after the clock reading of its
\* classification, and history in every other case.
C16_ExactBuckets ==
    rendered =>
        \A k \in 1..Len(approvals) :
            /\ approvals[k] \in Elems(newApprovals) <=> approvals[k].status = "pending"
            /\ approvals[k] \in Elems(activeApprovals)
                  <=> (/\ approvals[k].status = "valid"
                       /\ approvals[k].expiration_timestamp * MsPerSec > readings[k])
            /\ approvals[k] \in Elems(historyApprovals)
                  <=> ~(\/ approvals[k].status = "pending"
                        \/ (/\ approvals[k].status = "valid"
                            /\ approvals[k].expiration_timestamp * MsPerSec > readings[k]))

\* C17: a user refresh that fails with an error other than a 401 keeps the token,
\* does not redirect, leaves the published user as it was and logs the error; and
\* the token is removed only by the catch block of a refresh that failed with 401.
C17_TokenKeptOnOtherErrors ==
    [][/\ \A m \in Instances :
            (feed = "user" /\ caught[m] = "none" /\ caught'[m] = "other") =>
                /\ token' = token
                /\ screen' = screen
                /\ user' = user
                /\ logged'[m]
                /\ pc'[m] = "idle"
       /\ (token /\ ~token') =>
            \E m \in Instances : pc[m] = "rmtoken" /\ caught[m] = "unauthorized"]_vars

\* C17 witness: a refresh failed with an error other than 401 after a user had been
\* published; the token, the screen and the user are still there.
C17_Witness ==
    \E m \in Instances :
        /\ feed = "user"
        /\ caught[m] = "other"
        /\ logged[m]
        /\ token
        /\ screen = "Home"
        /\ user # NoUser

\* C18: with the clock only advancing and the approvals unchanged, an approval
\* that a render classified as history is classified as history by every later
\* render, never again as new or active.
C18_HistoryIsFinal ==
    [][(rendered /\ rendered') =>
          \A k \in 1..Len(approvals) :
              approvals[k] \in Elems(historyApprovals)
                  => (/\ approvals'[k] \in Elems(historyApprovals')
                      /\ approvals'[k] \notin Elems(newApprovals')
                      /\ approvals'[k] \notin Elems(activeApprovals'))]_vars

\* C18 witness: an approval active in one render is in history in the next, the
\* clock having passed its expiration in between.
C18_Witness ==
    /\ rendered
    /\ \E k \in 1..Len(approvals) :
          /\ approvals[k] \in Elems(previousActive)
          /\ approvals[k] \in Elems(historyApprovals)

\* the chain of mount m is at rest: loadUser is not running, nothing is in flight
\* and no timer of the chain is pending
AtRest(m) ==
    /\ pc[m] = "idle"
    /\ inflight[m] = 0
    /\ ~\E t \in timers : t[1] = m

\* C21: when loadUser finds no token stored it returns at once: no backend request
\* is issued, no user published, the token store and the screen are untouched and
\* no timer is scheduled, which leaves the chain of that mount at rest; and a chain
\* at rest stays at rest, whatever happens later (a token being stored included).
C21_NoTokenNoPolling ==
    [][\A m \in Instances :
          /\ (feed = "user" /\ pc[m] = "token" /\ pc'[m] # "token" /\ ~token) =>
                /\ UNCHANGED <<inflight, promiseAll, user, token, screen, timers,
                               timeoutRef, nextHandle>>
                /\ AtRest(m)'
          /\ (feed = "user" /\ AtRest(m)) => AtRest(m)']_vars

\* C21 witness: the mounted provider found no token on its first loadUser and is
\* at rest with no user, although a token has been stored since.
C21_Witness ==
    \E m \in Instances :
        /\ feed = "user"
        /\ Live(m)
        /\ AtRest(m)
        /\ caught[m] = "none"
        /\ timeoutRef[m] = 0
        /\ user = NoUser
        /\ token

====
